---- MODULE Spec2Model ----
(***************************************************************************)
(* Request pipeline of niconico-api-client: the facade NiconicoApiClient   *)
(* with its resource clients, each a BaseNiconicoClient carrying its own   *)
(* lastRequestTime, the status check, the error classifier (handleError)   *)
(* and the earnings-period resolution of NiconicoIncomeClient.             *)
(*                                                                         *)
(* JavaScript runs the code between two awaits without interleaving, so an *)
(* action is one such run: from a call or a wake-up to the next suspension *)
(* (the setTimeout of enforceRateLimit, or axios.request).  Time is the    *)
(* wall clock Date.now(), in milliseconds, advanced by Tick.               *)
(***************************************************************************)
EXTENDS Integers, Sequences, FiniteSets, TLC

VARIABLES
    now,              \* Date.now()
    curYear,          \* dayjs().year()
    curMonth,         \* dayjs().month() + 1
    requestInterval,  \* config.requestInterval: [set, ms], set = FALSE when undefined
    cookies,          \* config.cookies, the array every client keeps a reference to
    lastRequestTime,  \* BaseNiconicoClient.lastRequestTime, one per resource client
    call,             \* per caller: the position and locals of its pending operation
    calls,            \* number of operations invoked so far
    dispatches,       \* history: the requests that passed enforceRateLimit and were
                      \* handed to axios, in order; `after` is the number of
                      \* entries there were when that enforceRateLimit was invoked
    input,            \* argument of a pure function applied on its own
    output            \* its result

vars == <<now, curYear, curMonth, requestInterval, cookies, lastRequestTime, call,
          calls, dispatches, input, output>>

----------------------------------------------------------------------------
(* Bounds of the model *)

StartTime == 5000
TickMillis == 500
MaxTime == 6200
MaxCalls == 2
FirstYear == 2024
MaxCookies == 3
MaxStart == 3
MaxTotalCount == 25
MaxLength == 2

Callers == {"a", "b"}

StartMonths == {12}

(* the resource clients the facade constructs, each `new ...Client(config)` *)
Clients == {"video", "live", "income", "mylist"}

ConfiguredIntervals == {[set |-> FALSE, ms |-> 0], [set |-> TRUE, ms |-> 500]}

(* config.requestInterval as the constructors can be handed it *)
IntervalOptions ==
    {[set |-> FALSE, ms |-> 0]} \cup [set : {TRUE}, ms : {0, 1, 500, 999, 1000, 2000}]

DefaultRequestInterval == 1000

(* HTTP error statuses the transport can answer with in the pipeline runs *)
HttpErrorStatuses == {409, 500}

(* envelope meta.status values of a transport-successful answer *)
MetaStatuses == {200, 409}

(* statuses fed to the classifier on its own *)
ClassifiedStatuses == 400 .. 504

(* envelope statuses and years fed to the period resolution on its own *)
ProbeStatuses == {200, 201, 204, 400, 404, 409, 500, 503}
ResolveYears == {2023, 2024}

MessageShapes == {"string", "nonString", "absent"}

(* yearMonth arguments of fetchEarningsHistory: a year part followed by a   *)
(* month part, each well-formed or not                                      *)
YearParts ==
    {<<"2", "0", "2", "3">>, <<"2", "0", "2", "4">>, <<"2", "0", "2", "5">>,
     <<"2", "0", "2", "6">>, <<"2", "0", "a", "4">>, <<"a", "0", "2", "4">>,
     <<"2", "0", "2">>}

MonthParts ==
    {<<"0", "1">>, <<"0", "2">>, <<"0", "3">>, <<"0", "6">>, <<"1", "0">>,
     <<"1", "1">>, <<"1", "2">>, <<"0", "0">>, <<"1", "3">>, <<"x", "6">>,
     <<"1", "x">>, <<"6">>, <<>>, <<" ", "6">>, <<"-", "1">>}

YearMonthStrings == {y \o m : y \in YearParts, m \in MonthParts}

(* cookie records, by name and value; a list may hold a name twice *)
CookieNames == {"user_session", "nicosid"}
CookieValues == {"s1", "s2"}
Cookies == [name : CookieNames, value : CookieValues]

SeqsUpTo(S, n) == UNION {[1 .. k -> S] : k \in 0 .. n}

CookieLists == SeqsUpTo(Cookies, MaxCookies)

(* the credential of the pipeline runs *)
SessionCookies ==
    <<[name |-> "user_session", value |-> "s1"], [name |-> "nicosid", value |-> "s2"]>>

(* videoIds arguments of addToMylist and itemIds arguments of              *)
(* removeFromMylist (numbers, as join writes them)                          *)
VideoIdLists ==
    {<<>>, <<"sm1">>, <<"sm1", "sm2">>, <<"sm2", "sm1", "sm1">>}

ItemIdLists == {<<>>, <<"7">>, <<"8", "7">>}

(* pageSize / limit arguments, 0 included *)
PageSizes == {0, 1, 2, 3, 10}

(* response.data.hasNext of the broadcast history: true, false, or missing *)
HasNextValues == {"true", "false", "absent"}

(* the yearMonth arguments of the pipeline runs: an old month, a month that  *)
(* does not exist, the last month of FirstYear and the month after it        *)
HistoryArguments ==
    {<<"2", "0", "2", "4", "0", "4">>, <<"2", "0", "2", "4", "1", "3">>,
     <<"2", "0", "2", "4", "1", "2">>, <<"2", "0", "2", "5", "0", "1">>}

----------------------------------------------------------------------------
(* Values *)

NoUrl == [absolute |-> FALSE, endpoint |-> "none", year |-> 0, month |-> 0]
NoPeriod == [year |-> 0, month |-> 0]
NoResponse == [t |-> "none"]
NoOutcome == [kind |-> "none"]
NoInput == [t |-> "none"]
NoHeader == <<"none">>

Url(abs, ep, y, m) == [absolute |-> abs, endpoint |-> ep, year |-> y, month |-> m]

(* a body delivered with a 2xx transport status: {meta: {status}, data} or  *)
(* a body without meta; nested says whether body.data itself has a `data`   *)
Bodies ==
    [t : {"body"}, hasMeta : {TRUE}, status : MetaStatuses, nested : BOOLEAN]
    \cup [t : {"body"}, hasMeta : {FALSE}, status : {0}, nested : {FALSE}]

(* an axios rejection: with a response (HTTP error status), a timeout       *)
(* (code ECONNABORTED), another axios error, a plain Error, a non-Error     *)
HttpFailures(statuses) == [t : {"http"}, status : statuses, data : MessageShapes]

OtherFailures == {[t |-> "timeout"], [t |-> "network"], [t |-> "error"], [t |-> "value"]}

Failures ==
    [t : {"http"}, status : HttpErrorStatuses, data : {"absent"}] \cup {[t |-> "timeout"]}

TransportOutcomes == Bodies \cup Failures

IdleCall ==
    [pc |-> "idle", op |-> "none", id |-> 0, client |-> "none", phase |-> "none",
     url |-> NoUrl, skipStatusCheck |-> FALSE, enforceAfter |-> 0, wakeAt |-> 0,
     fresh |-> FALSE, method |-> "GET", header |-> NoHeader, items |-> <<>>,
     index |-> 0, item |-> <<>>, yearMonth |-> <<>>, requested |-> NoPeriod,
     probe |-> NoOutcome, period |-> NoPeriod, response |-> NoResponse, outcome |-> NoOutcome]

----------------------------------------------------------------------------
(* BaseNiconicoClient *)

(* RateLimiter: constructor(requestInterval: number = 1000), as the         *)
(* analytics client builds it from config.requestInterval                   *)
rateLimiterInterval ==
    IF requestInterval.set THEN requestInterval.ms ELSE DefaultRequestInterval

(* this.minRequestInterval = config.requestInterval || 1000 *)
minRequestInterval ==
    IF ~requestInterval.set \/ requestInterval.ms = 0
    THEN DefaultRequestInterval
    ELSE requestInterval.ms

(* variant: every URL is let through *)
startsWithHttpAny(url) == TRUE

(* url.startsWith('http') *)
startsWithHttp(url) == url.absolute

(* variant: every body is taken to carry meta.status *)
hasMetaPropertyAny(body) == TRUE

(* hasMetaProperty(response.data) *)
hasMetaProperty(body) == body.hasMeta

(* variant: only server-side statuses throw *)
checkMetaStatusServerOnly(body) == body.status >= 500

(* checkMetaStatus: TRUE when it throws *)
checkMetaStatus(body) == body.status # 200

(* extractErrorMessage(data) *)
extractErrorMessage(data) ==
    IF data = "string" THEN "upstream message" ELSE "details unknown"

(* an Error as the caller catches it: its kind, the status and message it   *)
(* carries, and the thrown object it is (cause) when handleError hands the  *)
(* original back instead of building a new Error                            *)
Classified(kind, status, message) ==
    [kind |-> "error", error |-> kind, status |-> status, message |-> message,
     cause |-> NoInput]

(* variant: 504 counted with the unavailable statuses *)
handleResponseErrorGateway(status, data) ==
    IF status = 400
    THEN Classified("InvalidParameters", 400, extractErrorMessage(data))
    ELSE IF status = 401
    THEN Classified("Unauthenticated", 0, "none")
    ELSE IF status = 403
    THEN Classified("Forbidden", 403, extractErrorMessage(data))
    ELSE IF status = 404
    THEN Classified("NotFound", 0, "none")
    ELSE IF status = 429
    THEN Classified("RateLimited", 0, "none")
    ELSE IF status >= 500 /\ status <= 504
    THEN Classified("UpstreamUnavailable", 0, "none")
    ELSE Classified("UpstreamError", status, extractErrorMessage(data))

(* handleError, the branch of an error that has a response *)
handleResponseError(status, data) ==
    IF status = 400
    THEN Classified("InvalidParameters", 400, extractErrorMessage(data))
    ELSE IF status = 401
    THEN Classified("Unauthenticated", 0, "none")
    ELSE IF status = 403
    THEN Classified("Forbidden", 403, extractErrorMessage(data))
    ELSE IF status = 404
    THEN Classified("NotFound", 0, "none")
    ELSE IF status = 429
    THEN Classified("RateLimited", 0, "none")
    ELSE IF status = 500 \/ status = 502 \/ status = 503
    THEN Classified("UpstreamUnavailable", 0, "none")
    ELSE Classified("UpstreamError", status, extractErrorMessage(data))

(* handleError(error): the Error the response interceptor rejects with *)
handleError(f) ==
    IF f.t = "http"
    THEN handleResponseError(f.status, f.data)
    ELSE IF f.t = "timeout"
    THEN Classified("Timeout", 0, "none")
    ELSE IF f.t = "network"
    THEN Classified("NetworkError", 0, "axios message")
    ELSE IF f.t = "error"
    THEN [Classified("Unknown", 0, "original error") EXCEPT !.cause = f]
    ELSE Classified("Unknown", 0, "unknown error occurred")

(* variant: the status check runs whatever skipStatusCheck says *)
requestResultAlwaysChecked(o, skip) ==
    IF o.t # "body"
    THEN handleError(o)
    ELSE IF hasMetaProperty(o) /\ checkMetaStatus(o)
    THEN Classified("MetaStatus", o.status, "none")
    ELSE [kind |-> "ok", body |-> o]

(* what request() settles with once axios has answered with o *)
requestResult(o, skip) ==
    IF o.t # "body"
    THEN handleError(o)
    ELSE IF ~skip /\ hasMetaProperty(o) /\ checkMetaStatus(o)
    THEN Classified("MetaStatus", o.status, "none")
    ELSE [kind |-> "ok", body |-> o]

(* Array.prototype.join: the parts, each a sequence of string pieces, with  *)
(* the separator between neighbours                                         *)
RECURSIVE join(_, _)
join(parts, separator) ==
    IF parts = <<>> THEN <<>>
    ELSE IF Len(parts) = 1 THEN parts[1]
    ELSE parts[1] \o <<separator>> \o join(Tail(parts), separator)

(* `${cookie.name}=${cookie.value}` *)
cookiePair(cookie) == <<cookie.name, "=", cookie.value>>

(* variant: a name that is already in the header is left out *)
buildCookieHeaderDistinct(cs) ==
    join([i \in 1 .. Cardinality({cs[k].name : k \in 1 .. Len(cs)}) |->
             cookiePair(cs[CHOOSE k \in 1 .. Len(cs) :
                 Cardinality({cs[m].name : m \in 1 .. k}) = i
                 /\ \A m \in 1 .. (k - 1) : cs[m].name # cs[k].name])],
         "; ")

(* buildCookieHeader(): this.cookies.map(...).join('; ') *)
buildCookieHeader(cs) == join([i \in 1 .. Len(cs) |-> cookiePair(cs[i])], "; ")

(* enforceRateLimit: now - this.lastRequestTime *)
timeSinceLastRequest(cl) == now - lastRequestTime[cl]

(* enforceRateLimit: timeSinceLastRequest < this.minRequestInterval *)
mustWait(cl) == timeSinceLastRequest(cl) < minRequestInterval

(* variant: waits the elapsed time instead of the remainder *)
waitTimeElapsed(cl) == timeSinceLastRequest(cl)

(* enforceRateLimit: waitTime *)
waitTime(cl) == minRequestInterval - timeSinceLastRequest(cl)

(* variant: the timestamp is left as it was *)
enforcedNoStamp(c, rec, suspended) ==
    LET sent == [rec EXCEPT !.pc = "inflight",
                            !.header = IF rec.op = "addToMylist" THEN rec.header
                                       ELSE buildCookieHeader(cookies)]
    IN  /\ lastRequestTime' = lastRequestTime
        /\ dispatches' = Append(dispatches,
               [client |-> rec.client, id |-> rec.id, url |-> rec.url,
                phase |-> rec.phase, after |-> rec.enforceAfter, at |-> now,
                suspended |-> suspended, fresh |-> rec.fresh, method |-> rec.method,
                item |-> rec.item, header |-> sent.header])
        /\ call' = [call EXCEPT ![c] = sent]

(* enforceRateLimit from the wake-up (or from its start when it does not    *)
(* wait) to the transport: this.lastRequestTime = Date.now(), the Cookie    *)
(* header (addToMylist built it ahead of its loop), the request handed to   *)
(* axios                                                                    *)
enforced(c, rec, suspended) ==
    LET sent == [rec EXCEPT !.pc = "inflight",
                            !.header = IF rec.op = "addToMylist" THEN rec.header
                                       ELSE buildCookieHeader(cookies)]
    IN  /\ lastRequestTime' = [lastRequestTime EXCEPT ![rec.client] = now]
        /\ dispatches' = Append(dispatches,
               [client |-> rec.client, id |-> rec.id, url |-> rec.url,
                phase |-> rec.phase, after |-> rec.enforceAfter, at |-> now,
                suspended |-> suspended, fresh |-> rec.fresh, method |-> rec.method,
                item |-> rec.item, header |-> sent.header])
        /\ call' = [call EXCEPT ![c] = sent]

(* enforceRateLimit() up to its suspension, or through to the transport     *)
(* when it does not wait                                                    *)
enforceRateLimit(c, base) ==
    LET rec == [base EXCEPT !.enforceAfter = Len(dispatches),
                            !.fresh = (lastRequestTime[base.client] = 0)]
    IN  IF mustWait(base.client)
        THEN /\ call' = [call EXCEPT ![c] =
                    [rec EXCEPT !.pc = "waiting",
                                !.wakeAt = now + waitTime(base.client)]]
             /\ UNCHANGED <<lastRequestTime, dispatches>>
        ELSE enforced(c, rec, FALSE)

(* request(url, options) up to its first suspension.  The URLs of the       *)
(* earnings probe and data fetch are built from BASE_URL and are absolute,  *)
(* so the throw of the URL check always reaches the caller.                 *)
request(c, base) ==
    IF ~startsWithHttp(base.url)
    THEN /\ call' = [call EXCEPT ![c] =
                [base EXCEPT !.pc = "done",
                             !.outcome = Classified("RelativeUrl", 0, "none")]]
         /\ UNCHANGED <<lastRequestTime, dispatches>>
    ELSE enforceRateLimit(c, [base EXCEPT !.header = NoHeader])

(* get(url, params): request in default mode, then response.data; the       *)
(* operations read `.data` of what get returned and destructure it          *)
getResult(o) ==
    LET r == requestResult(o, FALSE)
    IN  IF r.kind # "ok" THEN r
        ELSE IF o.nested THEN [kind |-> "ok", body |-> o]
        ELSE Classified("TypeError", 0, "none")

----------------------------------------------------------------------------
(* NiconicoIncomeClient *)

(* variant: no wrap into the previous year *)
getPreviousMonthNoWrap(p) == [year |-> p.year, month |-> p.month - 1]

(* getPreviousMonth(year, month) *)
getPreviousMonth(p) ==
    IF p.month = 1
    THEN [year |-> p.year - 1, month |-> 12]
    ELSE [year |-> p.year, month |-> p.month - 1]

(* variant: a rejected probe counts as available *)
checkEarningsAvailabilityOptimistic(r) ==
    IF r.kind = "ok"
    THEN IF r.body.hasMeta
         THEN IF r.body.status = 200 THEN TRUE
              ELSE IF r.body.status = 409 THEN FALSE
              ELSE TRUE
         ELSE TRUE
    ELSE TRUE

(* checkEarningsAvailability: r is what requestWithSpecialHandling settled  *)
(* with; a rejection lands in the catch                                     *)
checkEarningsAvailability(r) ==
    IF r.kind = "ok"
    THEN IF r.body.hasMeta
         THEN IF r.body.status = 200 THEN TRUE
              ELSE IF r.body.status = 409 THEN FALSE
              ELSE TRUE
         ELSE TRUE
    ELSE FALSE

(* variant: the period of the first data fetch is kept for later calls *)
determineTargetYearMonthMemo(isCurrentMonthAvailable, requested) ==
    IF \E i \in 1 .. Len(dispatches) : dispatches[i].url.endpoint = "forecasts"
    THEN LET first == CHOOSE i \in 1 .. Len(dispatches) :
                          /\ dispatches[i].url.endpoint = "forecasts"
                          /\ \A k \in 1 .. (i - 1) :
                                 dispatches[k].url.endpoint # "forecasts"
         IN  [year |-> dispatches[first].url.year,
              month |-> dispatches[first].url.month]
    ELSE IF isCurrentMonthAvailable THEN requested ELSE getPreviousMonth(requested)

(* determineTargetYearMonth, after the probe has answered *)
determineTargetYearMonth(isCurrentMonthAvailable, requested) ==
    IF isCurrentMonthAvailable THEN requested ELSE getPreviousMonth(requested)

----------------------------------------------------------------------------
(* NiconicoIncomeClient.fetchEarningsHistory: the checks on yearMonth.  A   *)
(* string is the sequence of its characters.                                *)

DigitChars == <<"0", "1", "2", "3", "4", "5", "6", "7", "8", "9">>

isDigit(ch) == \E i \in 1 .. Len(DigitChars) : DigitChars[i] = ch

digitValue(ch) == (CHOOSE i \in 1 .. Len(DigitChars) : DigitChars[i] = ch) - 1

Min(a, b) == IF a < b THEN a ELSE b

(* String.prototype.substring(start, end), 0 <= start <= end *)
substring(str, start, end) == SubSeq(str, start + 1, Min(end, Len(str)))

NaN == [nan |-> TRUE, v |-> 0]

Num(n) == [nan |-> FALSE, v |-> n]

RECURSIVE trimStart(_)
trimStart(str) ==
    IF str # <<>> /\ Head(str) = " " THEN trimStart(Tail(str)) ELSE str

(* the value of the longest prefix of digits, acc being the value so far *)
RECURSIVE leadingDigits(_, _)
leadingDigits(str, acc) ==
    IF str # <<>> /\ isDigit(Head(str))
    THEN leadingDigits(Tail(str), 10 * acc + digitValue(Head(str)))
    ELSE acc

(* parseInt(str, 10): leading white space, an optional sign, then as many   *)
(* digits as there are; NaN when there is none                              *)
parseInt(str) ==
    LET t == trimStart(str)
        signed == t # <<>> /\ Head(t) \in {"-", "+"}
        u == IF signed THEN Tail(t) ELSE t
    IN  IF u = <<>> \/ ~isDigit(Head(u))
        THEN NaN
        ELSE IF signed /\ Head(t) = "-"
        THEN Num(0 - leadingDigits(u, 0))
        ELSE Num(leadingDigits(u, 0))

(* an Error of one of the three checks; text is what `${...}` puts in its   *)
(* message: yearMonth, or year and month                                    *)
ValidationError(kind, text) ==
    [kind |-> "error", error |-> kind, text |-> text]

(* Number.isNaN(yearNum) || Number.isNaN(monthNum) || monthNum < 1 ||       *)
(* monthNum > 12                                                            *)
isInvalidFormat(yearNum, monthNum) ==
    yearNum.nan \/ monthNum.nan \/ monthNum.v < 1 \/ monthNum.v > 12

(* yearNum > currentYear || (yearNum === currentYear && monthNum >          *)
(* currentMonth)                                                            *)
isFuture(yearNum, monthNum, currentYear, currentMonth) ==
    yearNum > currentYear \/ (yearNum = currentYear /\ monthNum > currentMonth)

twoMonthsAgoYear(currentYear, currentMonth) ==
    IF currentMonth > 2 THEN currentYear ELSE currentYear - 1

(* variant: the wrap into the previous year is one month short *)
twoMonthsAgoMonthShort(currentMonth) ==
    IF currentMonth > 2 THEN currentMonth - 2 ELSE currentMonth + 9

twoMonthsAgoMonth(currentMonth) ==
    IF currentMonth > 2 THEN currentMonth - 2 ELSE currentMonth + 10

isAfterTwoMonthsAgo(yearNum, monthNum, currentYear, currentMonth) ==
    \/ yearNum > twoMonthsAgoYear(currentYear, currentMonth)
    \/ /\ yearNum = twoMonthsAgoYear(currentYear, currentMonth)
       /\ monthNum > twoMonthsAgoMonth(currentMonth)

(* variant: the two-months check runs ahead of the future check *)
checkPeriodRecentFirst(year, month, yearNum, monthNum, currentYear, currentMonth) ==
    IF isAfterTwoMonthsAgo(yearNum, monthNum, currentYear, currentMonth)
    THEN ValidationError("TooRecent", <<year, month>>)
    ELSE IF isFuture(yearNum, monthNum, currentYear, currentMonth)
    THEN ValidationError("Future", <<year, month>>)
    ELSE [kind |-> "accepted", year |-> year, month |-> month]

(* the checks against dayjs(), for a yearMonth that passed the format check *)
checkPeriod(year, month, yearNum, monthNum, currentYear, currentMonth) ==
    IF isFuture(yearNum, monthNum, currentYear, currentMonth)
    THEN ValidationError("Future", <<year, month>>)
    ELSE IF isAfterTwoMonthsAgo(yearNum, monthNum, currentYear, currentMonth)
    THEN ValidationError("TooRecent", <<year, month>>)
    ELSE [kind |-> "accepted", year |-> year, month |-> month]

(* fetchEarningsHistory from its entry to the apiUrl: the Error it throws,  *)
(* or the year and month strings the URL is built from                      *)
validateYearMonth(yearMonth, currentYear, currentMonth) ==
    LET year == substring(yearMonth, 0, 4)
        month == substring(yearMonth, 4, 6)
        yearNum == parseInt(year)
        monthNum == parseInt(month)
    IN  IF isInvalidFormat(yearNum, monthNum)
        THEN ValidationError("InvalidFormat", yearMonth)
        ELSE checkPeriod(year, month, yearNum.v, monthNum.v, currentYear, currentMonth)

----------------------------------------------------------------------------
(* hasMore of the paginated operations.  A JavaScript number is finite      *)
(* (fin, with its value), Infinity (inf), -Infinity (ninf) or NaN (nan).     *)

Finite(n) == [k |-> "fin", v |-> n]

Infinity == [k |-> "inf", v |-> 0]

NegativeInfinity == [k |-> "ninf", v |-> 0]

NotANumber == [k |-> "nan", v |-> 0]

(* Math.ceil(a / b) for integers a and b *)
ceilOfQuotient(a, b) ==
    IF b > 0 THEN Finite(0 - ((0 - a) \div b))
    ELSE IF b < 0 THEN Finite(0 - (a \div (0 - b)))
    ELSE IF a > 0 THEN Infinity
    ELSE IF a < 0 THEN NegativeInfinity
    ELSE NotANumber

(* n < x for an integer n and a JavaScript number x *)
lessThan(n, x) ==
    IF x.k = "fin" THEN n < x.v
    ELSE x.k = "inf"

(* variant: Math.floor in place of Math.ceil *)
totalPagesFloor(totalCount, pageSize) ==
    IF pageSize > 0 THEN Finite(totalCount \div pageSize)
    ELSE ceilOfQuotient(totalCount, pageSize)

(* NiconicoVideoClient.fetchVideos: Math.ceil(totalCount / pageSize) *)
totalPages(totalCount, pageSize) == ceilOfQuotient(totalCount, pageSize)

(* NiconicoVideoClient.fetchVideos: page < totalPages *)
videosHasMore(page, pageSize, totalCount) ==
    lessThan(page, totalPages(totalCount, pageSize))

(* variant: the number of returned items is not looked at *)
earningsHasMoreArithmetic(offset, limit, total, length) == offset + limit < total

(* NiconicoIncomeClient.fetchEarnings:                                      *)
(* offset + limit < total && contents.length > 0                            *)
earningsHasMore(offset, limit, total, length) ==
    offset + limit < total /\ length > 0

(* NiconicoIncomeClient.fetchEarningsHistory:                               *)
(* contents.length > 0 && offset + limit < total                            *)
historyHasMore(offset, limit, total, length) ==
    length > 0 /\ offset + limit < total

(* !response.data.hasNext, a missing hasNext being undefined *)
notHasNext(hasNext) == hasNext # "true"

(* NiconicoLiveClient.fetchLives:                                           *)
(* !response.data.hasNext === false && offset + limit < totalCount          *)
livesHasMore(hasNext, offset, limit, totalCount) ==
    (notHasNext(hasNext) = FALSE) /\ offset + limit < totalCount

----------------------------------------------------------------------------
(* NiconicoMylistClient: addToMylist and removeFromMylist call              *)
(* enforceRateLimit and axios themselves, without request()                 *)

Void == [kind |-> "void"]

(* variant: the ids are taken from the end of the list *)
videoIdAtReversed(videoIds, k) == <<videoIds[Len(videoIds) + 1 - k]>>

(* addToMylist: the videoId of the k-th turn of `for (const videoId of      *)
(* videoIds)`, as the url's itemId                                          *)
videoIdAt(videoIds, k) == <<videoIds[k]>>

(* variant: the loop goes on after a failed post *)
addContinuesAlways(rec, o) == rec.index < Len(rec.items)

(* addToMylist: the post of the k-th id resolved and there is another id *)
addContinues(rec, o) == o.t = "body" /\ rec.index < Len(rec.items)

(* variant: only the first id is sent *)
itemIdsStrFirst(itemIds) == IF itemIds = <<>> THEN <<>> ELSE <<itemIds[1]>>

(* removeFromMylist: itemIds.join(',') *)
itemIdsStr(itemIds) == join([i \in 1 .. Len(itemIds) |-> <<itemIds[i]>>], ",")

(* what addToMylist or removeFromMylist does once axios has answered its    *)
(* request with o: the next post, or the end of the operation               *)
mylistAnswered(c, rec, o) ==
    IF rec.op = "addToMylist" /\ addContinues(rec, o)
    THEN enforceRateLimit(c, [rec EXCEPT !.index = rec.index + 1,
                                         !.item = videoIdAt(rec.items, rec.index + 1),
                                         !.response = IF o.t = "body" THEN NoResponse
                                                      ELSE o])
    ELSE /\ call' = [call EXCEPT ![c] =
                [rec EXCEPT !.pc = "done",
                            !.response = IF o.t = "body" THEN NoResponse ELSE o,
                            !.outcome = IF o.t = "body" THEN Void ELSE handleError(o)]]
         /\ UNCHANGED <<lastRequestTime, dispatches>>

----------------------------------------------------------------------------
(* Operations *)

NewCall(c, op, cl, url, skip) ==
    [IdleCall EXCEPT !.op = op, !.id = calls + 1, !.client = cl, !.url = url,
                     !.skipStatusCheck = skip]

(* a caller invokes an operation when it has none pending; the callers are   *)
(* interchangeable, so "b" is the one that calls while "a" has a call open  *)
CanCall(c) ==
    /\ call[c].pc = "idle"
    /\ calls < MaxCalls
    /\ c = "b" => call["a"].pc # "idle"

(* a settled promise is continued in the same turn of the event loop, ahead  *)
(* of every timer, response and new call                                    *)
Settling == \E c \in Callers : call[c].pc = "done"

Frame == UNCHANGED <<now, curYear, curMonth, requestInterval, cookies, input, output>>

(* a subclass calling this.request / this.requestWithSpecialHandling *)
CallRequest(c, cl, abs, skip) ==
    /\ ~Settling
    /\ CanCall(c)
    /\ calls' = calls + 1
    /\ request(c, [NewCall(c, "request", cl, Url(abs, "mylists", 0, 0), skip)
                      EXCEPT !.phase = "data"])
    /\ Frame

(* NiconicoVideoClient.fetchVideos *)
fetchVideos(c) ==
    /\ ~Settling
    /\ CanCall(c)
    /\ calls' = calls + 1
    /\ request(c, [NewCall(c, "fetchVideos", "video", Url(TRUE, "videos", 0, 0), FALSE)
                      EXCEPT !.phase = "data"])
    /\ Frame

(* NiconicoLiveClient.fetchLives *)
fetchLives(c) ==
    /\ ~Settling
    /\ CanCall(c)
    /\ calls' = calls + 1
    /\ request(c, [NewCall(c, "fetchLives", "live", Url(TRUE, "lives", 0, 0), FALSE)
                      EXCEPT !.phase = "data"])
    /\ Frame

(* NiconicoIncomeClient.fetchEarnings up to the probe's first suspension *)
fetchEarnings(c) ==
    /\ ~Settling
    /\ CanCall(c)
    /\ calls' = calls + 1
    /\ request(c, [NewCall(c, "fetchEarnings", "income",
                           Url(TRUE, "forecasts/total", curYear, curMonth), TRUE)
                      EXCEPT !.phase = "probe",
                             !.requested = [year |-> curYear, month |-> curMonth]])
    /\ Frame

(* variant: no check, every yearMonth goes to the URL *)
historyCheckNone(yearMonth) ==
    [kind |-> "accepted", year |-> substring(yearMonth, 0, 4),
     month |-> substring(yearMonth, 4, 6)]

(* the checks of fetchEarningsHistory against dayjs() at the call *)
historyCheck(yearMonth) == validateYearMonth(yearMonth, curYear, curMonth)

(* NiconicoIncomeClient.fetchEarningsHistory up to its first suspension:    *)
(* the throw of a check, or this.get(apiUrl, ...)                           *)
fetchEarningsHistory(c, yearMonth) ==
    /\ ~Settling
    /\ CanCall(c)
    /\ calls' = calls + 1
    /\ LET v == historyCheck(yearMonth)
           base == [NewCall(c, "fetchEarningsHistory", "income", NoUrl, FALSE)
                       EXCEPT !.phase = "data", !.yearMonth = yearMonth]
       IN  IF v.kind = "error"
           THEN /\ call' = [call EXCEPT ![c] = [base EXCEPT !.pc = "done", !.outcome = v]]
                /\ UNCHANGED <<lastRequestTime, dispatches>>
           ELSE request(c, [base EXCEPT !.url = Url(TRUE, "histories",
                                                    parseInt(v.year).v,
                                                    parseInt(v.month).v)])
    /\ Frame

(* NiconicoMylistClient.addToMylist up to its first suspension: the header, *)
(* then the first turn of the loop                                          *)
addToMylist(c, videoIds) ==
    /\ ~Settling
    /\ CanCall(c)
    /\ calls' = calls + 1
    /\ LET base == [NewCall(c, "addToMylist", "mylist",
                            Url(TRUE, "mylists/items", 0, 0), FALSE)
                       EXCEPT !.phase = "data", !.method = "POST", !.items = videoIds,
                              !.header = buildCookieHeader(cookies)]
       IN  IF videoIds = <<>>
           THEN /\ call' = [call EXCEPT ![c] = [base EXCEPT !.pc = "done",
                                                            !.outcome = Void]]
                /\ UNCHANGED <<lastRequestTime, dispatches>>
           ELSE enforceRateLimit(c, [base EXCEPT !.index = 1,
                                                 !.item = videoIdAt(videoIds, 1)])
    /\ Frame

(* NiconicoMylistClient.removeFromMylist up to its first suspension *)
removeFromMylist(c, itemIds) ==
    /\ ~Settling
    /\ CanCall(c)
    /\ calls' = calls + 1
    /\ enforceRateLimit(c, [NewCall(c, "removeFromMylist", "mylist",
                                    Url(TRUE, "mylists/items", 0, 0), FALSE)
                               EXCEPT !.phase = "data", !.method = "DELETE",
                                      !.items = itemIds, !.item = itemIdsStr(itemIds)])
    /\ Frame

(* the setTimeout of enforceRateLimit fires *)
TimerFire(c) ==
    /\ ~Settling
    /\ call[c].pc = "waiting"
    /\ now >= call[c].wakeAt
    /\ enforced(c, call[c], TRUE)
    /\ UNCHANGED calls
    /\ Frame

(* axios.request settles with o; the operation runs on to its end or to     *)
(* its next request                                                         *)
Respond(c, o) ==
    /\ ~Settling
    /\ call[c].pc = "inflight"
    /\ LET rec == call[c]
       IN  IF call[c].op = "fetchEarnings" /\ call[c].phase = "probe"
           THEN LET r == requestResult(o, rec.skipStatusCheck)
                    p == determineTargetYearMonth(checkEarningsAvailability(r),
                                                  rec.requested)
                IN  request(c, [rec EXCEPT !.phase = "data", !.probe = r, !.response = o,
                                           !.period = p, !.skipStatusCheck = FALSE,
                                           !.url = Url(TRUE, "forecasts", p.year, p.month)])
           ELSE IF call[c].op \in {"addToMylist", "removeFromMylist"}
           THEN mylistAnswered(c, rec, o)
           ELSE /\ call' = [call EXCEPT ![c] =
                       [rec EXCEPT !.pc = "done", !.response = o,
                                   !.outcome = IF rec.op = "request"
                                               THEN requestResult(o, rec.skipStatusCheck)
                                               ELSE getResult(o)]]
                /\ UNCHANGED <<lastRequestTime, dispatches>>
    /\ UNCHANGED calls
    /\ Frame

(* the operation's promise is settled: the caller has its result or error *)
Finish(c) ==
    /\ call[c].pc = "done"
    /\ call' = [call EXCEPT ![c] = IdleCall]
    /\ UNCHANGED <<lastRequestTime, dispatches, calls>>
    /\ Frame

(* the wall clock advances *)
Tick ==
    /\ ~Settling
    /\ now + TickMillis <= MaxTime
    /\ now' = now + TickMillis
    /\ UNCHANGED <<curYear, curMonth, requestInterval, cookies, lastRequestTime, call,
                   calls, dispatches, input, output>>

(* the calendar year ends: December becomes January of the next year *)
NewYear ==
    /\ ~Settling
    /\ curYear = FirstYear /\ curMonth = 12
    /\ curMonth' = IF curMonth = 12 THEN 1 ELSE curMonth + 1
    /\ curYear' = IF curMonth = 12 THEN curYear + 1 ELSE curYear
    /\ UNCHANGED <<now, requestInterval, cookies, lastRequestTime, call, calls,
                   dispatches, input, output>>

Init ==
    /\ now = StartTime
    /\ curYear = FirstYear
    /\ curMonth \in StartMonths
    /\ requestInterval \in ConfiguredIntervals
    /\ cookies = SessionCookies
    /\ lastRequestTime = [cl \in Clients |-> 0]
    /\ call = [c \in Callers |-> IdleCall]
    /\ calls = 0
    /\ dispatches = <<>>
    /\ input = NoInput
    /\ output = NoOutcome

Next ==
    \/ \E c \in Callers, abs \in BOOLEAN, skip \in BOOLEAN :
          CallRequest(c, "mylist", abs, skip)
    \/ \E c \in Callers : fetchVideos(c)
    \/ \E c \in Callers : fetchLives(c)
    \/ \E c \in Callers : fetchEarnings(c)
    \/ \E c \in Callers, yearMonth \in HistoryArguments : fetchEarningsHistory(c, yearMonth)
    \/ \E c \in Callers : TimerFire(c)
    \/ \E c \in Callers, o \in TransportOutcomes : Respond(c, o)
    \/ \E c \in Callers : Finish(c)
    \/ Tick
    \/ NewYear

Spec == Init /\ [][Next]_vars

(* the mylist client on its own: its two mutating operations next to the   *)
(* requests of fetchMylists                                                 *)
NextMylist ==
    \/ \E c \in Callers, abs \in BOOLEAN, skip \in BOOLEAN :
          CallRequest(c, "mylist", abs, skip)
    \/ \E c \in Callers, videoIds \in VideoIdLists : addToMylist(c, videoIds)
    \/ \E c \in Callers, itemIds \in ItemIdLists : removeFromMylist(c, itemIds)
    \/ \E c \in Callers : TimerFire(c)
    \/ \E c \in Callers, o \in TransportOutcomes : Respond(c, o)
    \/ \E c \in Callers : Finish(c)
    \/ Tick

SpecMylist == Init /\ [][NextMylist]_vars

----------------------------------------------------------------------------
(* The pure functions on their own: one input, one application *)

ProbeResults ==
    [kind : {"ok"}, body : [t : {"body"}, hasMeta : {TRUE}, status : ProbeStatuses,
                            nested : {FALSE}]]
    \cup {[kind |-> "ok", body |-> [t |-> "body", hasMeta |-> FALSE, status |-> 0,
                                    nested |-> FALSE]]}
    \cup {handleError(f) : f \in HttpFailures({409, 500}) \cup OtherFailures}

(* the arguments of a paginated operation and what the answer's data holds: *)
(* start is page or offset, size is pageSize or limit, length the number of *)
(* items of the answer                                                      *)
PageInputs ==
    [t : {"page"}, op : {"fetchVideos", "fetchEarnings", "fetchEarningsHistory"},
     start : 0 .. MaxStart, size : PageSizes, totalCount : 0 .. MaxTotalCount,
     length : 0 .. MaxLength, hasNext : {"absent"}]
    \cup [t : {"page"}, op : {"fetchLives"},
          start : 0 .. MaxStart, size : PageSizes, totalCount : 0 .. MaxTotalCount,
          length : 0 .. MaxLength, hasNext : HasNextValues]

PureInputs ==
    [t : {"failure"}, failure : HttpFailures(ClassifiedStatuses) \cup OtherFailures]
    \cup [t : {"probe"}, result : ProbeResults,
          requested : [year : ResolveYears, month : 1 .. 12]]
    \cup [t : {"history"}, yearMonth : YearMonthStrings]
    \cup PageInputs
    \cup {[t |-> "cookies"]}
    \cup {[t |-> "config"]}

InitPure ==
    /\ input \in PureInputs
    /\ now = StartTime
    /\ curYear = FirstYear
    /\ curMonth \in IF input.t = "history" THEN 1 .. 12 ELSE {1}
    /\ requestInterval \in IF input.t = "config" THEN IntervalOptions
                          ELSE {[set |-> FALSE, ms |-> 0]}
    /\ cookies \in IF input.t = "cookies" THEN CookieLists ELSE {SessionCookies}
    /\ lastRequestTime = [cl \in Clients |-> 0]
    /\ call = [c \in Callers |-> IdleCall]
    /\ calls = 0
    /\ dispatches = <<>>
    /\ output = NoOutcome

PureFrame ==
    UNCHANGED <<now, curYear, curMonth, requestInterval, cookies, lastRequestTime, call,
                calls, dispatches, input>>

(* handleError(error) *)
Classify ==
    /\ input.t = "failure"
    /\ output = NoOutcome
    /\ output' = handleError(input.failure)
    /\ PureFrame

(* determineTargetYearMonth with the probe settled as input.result *)
Resolve ==
    /\ input.t = "probe"
    /\ output = NoOutcome
    /\ output' = [kind |-> "period",
                  period |-> determineTargetYearMonth(
                                 checkEarningsAvailability(input.result),
                                 input.requested)]
    /\ PureFrame

(* fetchEarningsHistory(yearMonth, ...) up to its apiUrl *)
Validate ==
    /\ input.t = "history"
    /\ output = NoOutcome
    /\ output' = validateYearMonth(input.yearMonth, curYear, curMonth)
    /\ PureFrame

Paged(op) == input.t = "page" /\ input.op = op /\ output = NoOutcome

PageResult(hasMore) == [kind |-> "page", hasMore |-> hasMore]

(* fetchVideos from the destructuring of response.data to its return *)
VideosPage ==
    /\ Paged("fetchVideos")
    /\ output' = PageResult(videosHasMore(input.start, input.size, input.totalCount))
    /\ PureFrame

(* fetchLives from the destructuring of response.data to its return *)
LivesPage ==
    /\ Paged("fetchLives")
    /\ output' = PageResult(livesHasMore(input.hasNext, input.start, input.size,
                                         input.totalCount))
    /\ PureFrame

(* fetchEarnings from the destructuring of response.data to its return *)
EarningsPage ==
    /\ Paged("fetchEarnings")
    /\ output' = PageResult(earningsHasMore(input.start, input.size, input.totalCount,
                                            input.length))
    /\ PureFrame

(* fetchEarningsHistory from the destructuring of response.data to its return *)
HistoryPage ==
    /\ Paged("fetchEarningsHistory")
    /\ output' = PageResult(historyHasMore(input.start, input.size, input.totalCount,
                                           input.length))
    /\ PureFrame

(* buildCookieHeader() of a request; the header of the request before it   *)
(* is kept next to it                                                       *)
BuildHeader ==
    /\ input.t = "cookies"
    /\ output.kind = "none" \/ (output.kind = "header" /\ output.previous = NoHeader)
    /\ output' = [kind |-> "header", header |-> buildCookieHeader(cookies),
                  previous |-> IF output.kind = "header" THEN output.header ELSE NoHeader]
    /\ PureFrame

(* the constructors of the resource clients, from one config: the          *)
(* BaseNiconicoClient ones and the RateLimiter of the analytics client      *)
Construct ==
    /\ input.t = "config"
    /\ output = NoOutcome
    /\ output' = [kind |-> "intervals", base |-> minRequestInterval,
                  limiter |-> rateLimiterInterval]
    /\ PureFrame

NextPure ==
    \/ Construct
    \/ BuildHeader
    \/ Classify
    \/ Resolve
    \/ Validate
    \/ VideosPage
    \/ LivesPage
    \/ EarningsPage
    \/ HistoryPage

SpecPure == InitPure /\ [][NextPure]_vars

----------------------------------------------------------------------------
(* Properties *)

Dispatched == 1 .. Len(dispatches)

PeriodOf(url) == [year |-> url.year, month |-> url.month]

(* the previous calendar month, as the specification words it *)
PreviousCalendarMonth(p) ==
    IF p.month > 1
    THEN [year |-> p.year, month |-> p.month - 1]
    ELSE [year |-> p.year - 1, month |-> 12]

(* C1: any two transport dispatches of one client instance start at least   *)
(* minRequestInterval apart, whatever the interleaving of its callers.      *)
C1_DispatchSpacing ==
    \A i, j \in Dispatched :
        (i < j /\ dispatches[i].client = dispatches[j].client)
            => dispatches[j].at - dispatches[i].at >= minRequestInterval

(* C2: when an enforceRateLimit is invoked after an earlier one on the same *)
(* limiter has returned, it returns at least minRequestInterval after that  *)
(* return; and an enforceRateLimit invoked on a limiter that has never      *)
(* recorded a request (lastRequestTime = 0) returns without suspending.     *)
C2_SequentialEnforce ==
    /\ \A i, j \in Dispatched :
          (dispatches[i].client = dispatches[j].client /\ i <= dispatches[j].after)
              => dispatches[j].at - dispatches[i].at >= minRequestInterval
    /\ \A j \in Dispatched : dispatches[j].fresh => ~dispatches[j].suspended

C2_Witness ==
    \E i, j \in Dispatched :
        /\ dispatches[i].client = dispatches[j].client
        /\ i <= dispatches[j].after
        /\ dispatches[i].fresh /\ ~dispatches[i].suspended
        /\ dispatches[j].suspended
        /\ dispatches[j].at - dispatches[i].at >= minRequestInterval

(* C3: any two requests of one facade instance that go to different         *)
(* resource families start at least minRequestInterval apart.               *)
C3_SharedLimiter ==
    \A i, j \in Dispatched :
        (i < j /\ dispatches[i].client # dispatches[j].client)
            => dispatches[j].at - dispatches[i].at >= minRequestInterval

(* C4: the resolved period is the requested month when the probe envelope   *)
(* has meta.status 200 or any status other than 409, and the previous       *)
(* calendar month (December of the year before for January) when it is 409. *)
C4_PeriodMapping ==
    (input.t = "probe" /\ output.kind = "period"
        /\ input.result.kind = "ok" /\ input.result.body.hasMeta)
    => IF input.result.body.status = 409
       THEN output.period = PreviousCalendarMonth(input.requested)
       ELSE output.period = input.requested

C4_Witness ==
    /\ input.t = "probe" /\ output.kind = "period"
    /\ input.result.kind = "ok" /\ input.result.body.hasMeta
    /\ input.result.body.status = 409
    /\ input.requested = [year |-> 2024, month |-> 1]
    /\ output.period = [year |-> 2023, month |-> 12]

HasDataDispatch(id) ==
    \E i \in Dispatched : dispatches[i].id = id /\ dispatches[i].phase = "data"

C6_NotMemoized ==
    /\ \A j \in Dispatched :
          dispatches[j].url.endpoint = "forecasts"
              => \E i \in 1 .. (j - 1) :
                    /\ dispatches[i].id = dispatches[j].id
                    /\ dispatches[i].url.endpoint = "forecasts/total"
                    /\ PeriodOf(dispatches[j].url)
                           \in {PeriodOf(dispatches[i].url),
                                PreviousCalendarMonth(PeriodOf(dispatches[i].url))}
    /\ \A c \in Callers :
          (call[c].op = "fetchEarnings" /\ call[c].phase = "data")
              => /\ \E i \in Dispatched :
                       /\ dispatches[i].id = call[c].id
                       /\ dispatches[i].phase = "probe"
                       /\ PeriodOf(dispatches[i].url) = call[c].requested
                 /\ PeriodOf(call[c].url) = call[c].period
                 /\ (call[c].probe.kind = "ok" /\ call[c].probe.body.status # 409)
                        => call[c].period = call[c].requested
                 /\ (call[c].probe.kind = "ok" /\ call[c].probe.body.status = 409)
                        => call[c].period = PreviousCalendarMonth(call[c].requested)

C6_Witness ==
    \E c \in Callers, i \in Dispatched :
        /\ call[c].op = "fetchEarnings" /\ call[c].phase = "data"
        /\ call[c].probe.kind = "ok" /\ call[c].probe.body.status = 200
        /\ call[c].period = call[c].requested
        /\ dispatches[i].id < call[c].id
        /\ dispatches[i].url.endpoint = "forecasts"
        /\ PeriodOf(dispatches[i].url) = PreviousCalendarMonth(call[c].requested)

(* C7: a request for a relative URL settles at once with the local error    *)
(* and leaves the limiter and the transport untouched.                      *)
C7_RelativeUrlFrame ==
    [][\A c \in Callers :
          (call[c].pc = "idle" /\ call'[c].pc # "idle"
              /\ call'[c].url # NoUrl /\ ~call'[c].url.absolute)
              => /\ call'[c].pc = "done"
                 /\ call'[c].outcome.kind = "error"
                 /\ call'[c].outcome.error = "RelativeUrl"
                 /\ lastRequestTime' = lastRequestTime
                 /\ dispatches' = dispatches]_vars

C7_Witness ==
    \E c \in Callers :
        /\ call[c].pc = "done" /\ ~call[c].url.absolute
        /\ call[c].outcome.kind = "error" /\ call[c].outcome.error = "RelativeUrl"
        /\ lastRequestTime[call[c].client] > 0
        /\ now - lastRequestTime[call[c].client] < minRequestInterval
        /\ Len(dispatches) = 1

(* C8: in default mode a transport-successful answer whose envelope has     *)
(* meta.status other than 200 is raised as an error, and with meta.status   *)
(* 200 request() returns the envelope.                                      *)
C8_DefaultModeStatusCheck ==
    \A c \in Callers :
        (call[c].pc = "done" /\ ~call[c].skipStatusCheck
            /\ call[c].response.t = "body" /\ call[c].response.hasMeta)
        => /\ call[c].response.status # 200 => call[c].outcome.kind = "error"
           /\ (call[c].response.status = 200 /\ call[c].op = "request")
                  => call[c].outcome = [kind |-> "ok", body |-> call[c].response]

C8_Witness ==
    \E c \in Callers :
        /\ call[c].pc = "done" /\ call[c].op = "request" /\ ~call[c].skipStatusCheck
        /\ call[c].response.t = "body" /\ call[c].response.hasMeta
        /\ call[c].response.status = 409
        /\ call[c].outcome.kind = "error" /\ call[c].outcome.error = "MetaStatus"

TaxonomyKind(s) ==
    CASE s = 400 -> "InvalidParameters"
      [] s = 401 -> "Unauthenticated"
      [] s = 403 -> "Forbidden"
      [] s = 404 -> "NotFound"
      [] s = 429 -> "RateLimited"
      [] s \in {500, 502, 503} -> "UpstreamUnavailable"
      [] OTHER -> "UpstreamError"

(* C10: a failure carrying HTTP status s is classified by s as the          *)
(* taxonomy says, every status outside it as UpstreamError carrying s.      *)
C10_StatusTaxonomy ==
    (input.t = "failure" /\ input.failure.t = "http" /\ output.kind # "none")
    => /\ output.kind = "error"
       /\ output.error = TaxonomyKind(input.failure.status)
       /\ output.error = "UpstreamError" => output.status = input.failure.status

C10_Witness ==
    /\ input.t = "failure" /\ input.failure.t = "http"
    /\ input.failure.status = 409
    /\ output.kind = "error" /\ output.error = "UpstreamError" /\ output.status = 409

(* the kind the specification gives a failure that has no HTTP response *)
TransportKind(f) ==
    CASE f.t = "timeout" -> "Timeout"
      [] f.t = "network" -> "NetworkError"
      [] OTHER -> "Unknown"

(* C11: every failure is classified as an error of exactly one kind, never  *)
(* as a success; without an HTTP response a timeout is Timeout, another     *)
(* transport failure is NetworkError, and anything else, a thrown non-Error *)
(* value included, is Unknown and carries the original failure.             *)
C11_ClassifierTotal ==
    (input.t = "failure" /\ output.kind # "none")
    => /\ output.kind = "error"
       /\ input.failure.t # "http"
              => /\ output.error = TransportKind(input.failure)
                 /\ output.error = "Unknown" => output.cause = input.failure

AllDigits(str) == \A i \in 1 .. Len(str) : isDigit(str[i])

RECURSIVE DecimalValue(_)
DecimalValue(str) ==
    IF str = <<>> THEN 0
    ELSE 10 * DecimalValue(SubSeq(str, 1, Len(str) - 1)) + digitValue(str[Len(str)])

YearPart(str) == SubSeq(str, 1, Min(4, Len(str)))

MonthPart(str) == SubSeq(str, 5, Min(6, Len(str)))

(* YYYYMM: six digits with MM in 01..12 *)
WellFormed(str) ==
    /\ Len(str) = 6 /\ AllDigits(str)
    /\ DecimalValue(MonthPart(str)) \in 1 .. 12

MonthIndex(y, m) == 12 * y + m

RequestedIndex(str) ==
    MonthIndex(DecimalValue(YearPart(str)), DecimalValue(MonthPart(str)))

CurrentIndex == MonthIndex(curYear, curMonth)

Validated == input.t = "history" /\ output.kind # "none"

(* C12: a well-formed requested period is accepted exactly when its month   *)
(* index is at most the current month's index minus two, in January and     *)
(* February as in every other month.                                        *)
C12_TwoMonthsOld ==
    (Validated /\ WellFormed(input.yearMonth))
    => (output.kind = "accepted" <=> RequestedIndex(input.yearMonth) <= CurrentIndex - 2)

C12_Witness ==
    /\ Validated /\ WellFormed(input.yearMonth)
    /\ curMonth = 1
    /\ RequestedIndex(input.yearMonth) = CurrentIndex - 2
    /\ DecimalValue(MonthPart(input.yearMonth)) = 11
    /\ output.kind = "accepted"

(* a string the specification calls malformed: shorter than six characters, *)
(* a year part or a month part that is not all digits, a month outside 1..12 *)
Malformed(str) ==
    \/ Len(str) < 6
    \/ ~AllDigits(YearPart(str))
    \/ ~AllDigits(MonthPart(str))
    \/ DecimalValue(MonthPart(str)) \notin 1 .. 12

(* C13: every malformed yearMonth is rejected with the format error. *)
C13_MalformedRejected ==
    (Validated /\ Malformed(input.yearMonth))
    => (output.kind = "error" /\ output.error = "InvalidFormat")

(* C14: a well-formed period after the current month is rejected as future, *)
(* the current month and the month before it as too recent; the format      *)
(* check comes first, the future check second; the error names the period.  *)
C14_RejectionReason ==
    Validated
    => /\ (WellFormed(input.yearMonth) /\ RequestedIndex(input.yearMonth) > CurrentIndex)
              => (output.kind = "error" /\ output.error = "Future")
       /\ (WellFormed(input.yearMonth)
              /\ RequestedIndex(input.yearMonth) \in {CurrentIndex, CurrentIndex - 1})
              => (output.kind = "error" /\ output.error = "TooRecent")
       /\ (Len(input.yearMonth) = 6 /\ AllDigits(input.yearMonth)
              /\ ~WellFormed(input.yearMonth))
              => (output.kind = "error" /\ output.error = "InvalidFormat")
       /\ (output.kind = "error" /\ output.error = "InvalidFormat")
              => output.text = input.yearMonth
       /\ (output.kind = "error" /\ output.error # "InvalidFormat")
              => output.text = <<YearPart(input.yearMonth), MonthPart(input.yearMonth)>>

C14_Witness ==
    /\ Validated /\ WellFormed(input.yearMonth)
    /\ curMonth = 1
    /\ RequestedIndex(input.yearMonth) = CurrentIndex - 1
    /\ output.kind = "error" /\ output.error = "TooRecent"
    /\ output.text = <<YearPart(input.yearMonth), <<"1", "2">> >>

(* a period the checks have to reject: not well-formed, or younger than two *)
(* months                                                                   *)
MustReject(str) == ~WellFormed(str) \/ RequestedIndex(str) > CurrentIndex - 2

ValidationKinds == {"InvalidFormat", "Future", "TooRecent"}

(* C15: a fetchEarningsHistory call that rejects its period settles in the  *)
(* step of the call, without a wait, with lastRequestTime of every client   *)
(* and the transport log unchanged; no request is ever dispatched for it.   *)
C15_ValidationFrame ==
    /\ [](\A c \in Callers :
            (call[c].op = "fetchEarningsHistory" /\ call[c].outcome.kind = "error"
                /\ call[c].outcome.error \in ValidationKinds)
            => ~\E i \in Dispatched : dispatches[i].id = call[c].id)
    /\ [][\A c \in Callers :
            (call[c].pc = "idle" /\ call'[c].op = "fetchEarningsHistory")
            => /\ MustReject(call'[c].yearMonth)
                    => /\ call'[c].pc = "done"
                       /\ call'[c].outcome.kind = "error"
                       /\ call'[c].outcome.error \in ValidationKinds
               /\ call'[c].pc = "done"
                    => /\ lastRequestTime' = lastRequestTime
                       /\ dispatches' = dispatches]_vars

C15_Witness ==
    \E c \in Callers :
        /\ call[c].op = "fetchEarningsHistory" /\ call[c].pc = "done"
        /\ call[c].outcome.kind = "error" /\ call[c].outcome.error = "TooRecent"
        /\ lastRequestTime["income"] > 0
        /\ now - lastRequestTime["income"] < minRequestInterval
        /\ Len(dispatches) = 1

PageOf(op) == input.t = "page" /\ input.op = op /\ output.kind = "page"

(* the least n with n * size >= total, for size > 0 and total >= 0 *)
Ceiling(total, size) ==
    CHOOSE n \in 0 .. total : n * size >= total /\ (n > 0 => (n - 1) * size < total)

(* C16: with pageSize > 0 the hasMore of fetchVideos is                     *)
(* page < ceil(totalCount / pageSize).                                      *)
C16_VideosHasMore ==
    (PageOf("fetchVideos") /\ input.size > 0)
    => (output.hasMore <=> input.start < Ceiling(input.totalCount, input.size))

C16_Witness ==
    /\ PageOf("fetchVideos")
    /\ input.totalCount = 25 /\ input.size = 10 /\ input.start = 2
    /\ output.hasMore

(* C17: with pageSize or limit 0 every paginated operation returns          *)
(* hasMore = false.                                                         *)
C17_ZeroSizeNoMore ==
    (input.t = "page" /\ output.kind = "page" /\ input.size = 0) => ~output.hasMore

(* C18: the hasMore of fetchEarnings and of fetchEarningsHistory is         *)
(* (offset + limit < totalCount) and (returned items > 0).                  *)
C18_EarningsHasMore ==
    (PageOf("fetchEarnings") \/ PageOf("fetchEarningsHistory"))
    => (output.hasMore <=>
            (input.start + input.size < input.totalCount /\ input.length > 0))

C18_Witness ==
    /\ PageOf("fetchEarnings")
    /\ input.length = 0
    /\ input.start + input.size < input.totalCount
    /\ ~output.hasMore

(* C19: fetchLives returns hasMore = false whenever the page holds no       *)
(* program.                                                                 *)
C19_LivesEmptyPage ==
    (PageOf("fetchLives") /\ input.length = 0) => ~output.hasMore

(* C20: the hasMore of fetchLives is the arithmetic condition               *)
(* offset + limit < totalCount alone, the same for every hasNext.           *)
C20_HasNextIgnored ==
    PageOf("fetchLives")
    => /\ output.hasMore <=> input.start + input.size < input.totalCount
       /\ \A h \in HasNextValues :
              livesHasMore(h, input.start, input.size, input.totalCount) = output.hasMore

(* the header the specification describes: name=value entries in the order *)
(* of the credential, "; " between them                                     *)
HeaderOf(cs, header) ==
    /\ Len(header) = IF cs = <<>> THEN 0 ELSE 4 * Len(cs) - 1
    /\ \A i \in 1 .. Len(cs) :
          /\ header[4 * i - 3] = cs[i].name
          /\ header[4 * i - 2] = "="
          /\ header[4 * i - 1] = cs[i].value
          /\ i < Len(cs) => header[4 * i] = "; "

(* C23: the Cookie header is the credential's records as name=value joined *)
(* by "; " in their order, one entry per record; building it leaves the     *)
(* credential as it was, and a second build gives the same header.          *)
C23_CookieHeader ==
    /\ [](output.kind = "header"
            => /\ HeaderOf(cookies, output.header)
               /\ output.previous # NoHeader => output.header = output.previous)
    /\ [][cookies' = cookies]_vars

C23_Witness ==
    /\ output.kind = "header" /\ output.previous # NoHeader
    /\ Len(cookies) = 3
    /\ cookies[1].name = cookies[3].name /\ cookies[1].value # cookies[3].value
    /\ cookies[2].name # cookies[1].name
    /\ output.header = output.previous

(* the positions in the transport log of the requests of call id, in order *)
DispatchesOf(id) == {i \in Dispatched : dispatches[i].id = id}

(* the k-th request of call id *)
NthOf(id, k) ==
    CHOOSE i \in DispatchesOf(id) :
        Cardinality({m \in DispatchesOf(id) : m <= i}) = k

(* C21: addToMylist sends one POST per video id, in the order of the list,  *)
(* the next one only after the one before it was answered and after an      *)
(* enforcement of its own, at least minRequestInterval after it; with no    *)
(* failure it ends after exactly as many requests as there are ids.         *)
C21_AddOnePerId ==
    \A c \in Callers :
        call[c].op = "addToMylist"
        => LET id == call[c].id
               sent == Cardinality(DispatchesOf(id))
           IN  /\ sent = IF call[c].pc = "waiting" THEN call[c].index - 1
                         ELSE call[c].index
               /\ call[c].outcome = Void => sent = Len(call[c].items)
               /\ \A k \in 1 .. sent :
                     /\ dispatches[NthOf(id, k)].method = "POST"
                     /\ dispatches[NthOf(id, k)].item = <<call[c].items[k]>>
                     /\ k > 1 =>
                           /\ dispatches[NthOf(id, k)].after >= NthOf(id, k - 1)
                           /\ dispatches[NthOf(id, k)].at
                                  - dispatches[NthOf(id, k - 1)].at >= minRequestInterval

C21_Witness ==
    \E c \in Callers :
        /\ call[c].op = "addToMylist" /\ call[c].pc = "done" /\ call[c].outcome = Void
        /\ Len(call[c].items) = 2 /\ call[c].items[1] # call[c].items[2]
        /\ Cardinality(DispatchesOf(call[c].id)) = 2
        /\ Len(dispatches) = 3

(* the ids joined by commas, in their order *)
CommaJoined(ids, str) ==
    /\ Len(str) = IF ids = <<>> THEN 0 ELSE 2 * Len(ids) - 1
    /\ \A i \in 1 .. Len(ids) :
          /\ str[2 * i - 1] = ids[i]
          /\ i < Len(ids) => str[2 * i] = ","

(* C22: removeFromMylist sends exactly one DELETE, after one enforcement,   *)
(* carrying all the item ids joined by commas in their order, for a list    *)
(* of any length.                                                           *)
C22_RemoveBatched ==
    \A c \in Callers :
        call[c].op = "removeFromMylist"
        => LET id == call[c].id
           IN  /\ Cardinality(DispatchesOf(id)) = IF call[c].pc = "waiting" THEN 0 ELSE 1
               /\ \A i \in DispatchesOf(id) :
                     /\ dispatches[i].method = "DELETE"
                     /\ CommaJoined(call[c].items, dispatches[i].item)
                     /\ lastRequestTime[dispatches[i].client] >= dispatches[i].at

C22_Witness ==
    \E c \in Callers, i \in Dispatched :
        /\ call[c].op = "removeFromMylist" /\ call[c].pc = "done"
        /\ call[c].items = <<"8", "7">>
        /\ dispatches[i].id = call[c].id
        /\ dispatches[i].item = <<"8", ",", "7">>
        /\ dispatches[i].suspended

(* C24: a configured requestInterval v, 0 and values under 1000 included,   *)
(* is the interval the client's limiter uses, 1000 is used only when none   *)
(* is configured, and all clients built from one config use the same one.   *)
C24_IntervalOverride ==
    output.kind = "intervals"
    => /\ requestInterval.set
              => (output.base = requestInterval.ms /\ output.limiter = requestInterval.ms)
       /\ ~requestInterval.set
              => (output.base = DefaultRequestInterval
                  /\ output.limiter = DefaultRequestInterval)
       /\ output.base = output.limiter

PaginatedOperations == {"fetchVideos", "fetchLives", "fetchEarnings", "fetchEarningsHistory"}

(* C25: a paginated operation answered with the envelope                    *)
(* {meta: {status: 200}, data: D}, D holding the items and the total,       *)
(* returns the page made from D.                                            *)
C25_UnwrapOnce ==
    \A c \in Callers :
        (call[c].pc = "done" /\ call[c].op \in PaginatedOperations
            /\ call[c].response.t = "body" /\ call[c].response.hasMeta
            /\ call[c].response.status = 200 /\ ~call[c].response.nested)
        => call[c].outcome = [kind |-> "ok", body |-> call[c].response]

(* C26: every request handed to the transport follows an enforcement of its *)
(* own call that was begun after the call's request before it, and the      *)
(* Cookie header is built after that enforcement: a call that is still      *)
(* waiting in enforceRateLimit has built no header for the request to come. *)
C26_EnforceThenHeader ==
    /\ \A i, j \in Dispatched :
          (i < j /\ dispatches[i].id = dispatches[j].id) => dispatches[j].after >= i
    /\ \A j \in Dispatched : dispatches[j].header # NoHeader
    /\ \A c \in Callers : call[c].pc = "waiting" => call[c].header = NoHeader

(* the time of the latest request of a client, 0 when it has sent none *)
LastDispatchAt(cl) ==
    LET sent == {i \in Dispatched : dispatches[i].client = cl}
    IN  IF sent = {} THEN 0
        ELSE dispatches[CHOOSE i \in sent : \A m \in sent : m <= i].at

(* C27: lastRequestTime of a client is the time of its latest request       *)
(* attempt, whatever became of the attempt; it never goes back and never    *)
(* returns to 0; a request begun after a failed one is sent at least        *)
(* minRequestInterval after it.                                             *)
C27_TimestampLifecycle ==
    /\ [](\A cl \in Clients : lastRequestTime[cl] = LastDispatchAt(cl))
    /\ [](\A c \in Callers :
            (call[c].pc = "done" /\ call[c].outcome.kind = "error"
                /\ DispatchesOf(call[c].id) # {})
            => lastRequestTime[call[c].client] > 0)
    /\ [](\A c \in Callers :
            (call[c].op = "fetchEarnings" /\ call[c].probe.kind = "error")
            => \A i, j \in DispatchesOf(call[c].id) :
                   i < j => dispatches[j].at - dispatches[i].at >= minRequestInterval)
    /\ [][\A cl \in Clients :
            /\ lastRequestTime'[cl] >= lastRequestTime[cl]
            /\ lastRequestTime[cl] # 0 => lastRequestTime'[cl] # 0]_vars

C27_Witness ==
    \E c \in Callers :
        /\ call[c].op = "fetchEarnings"
        /\ call[c].probe.kind = "error" /\ call[c].probe.error = "UpstreamUnavailable"
        /\ call[c].pc = "done" /\ call[c].outcome.kind = "error"
        /\ Cardinality(DispatchesOf(call[c].id)) = 2
        /\ lastRequestTime["income"] = dispatches[Len(dispatches)].at
        /\ lastRequestTime["income"] > StartTime

(* C28: a fetchEarnings call sends at most two requests, the probe of the   *)
(* month that was current at the call and then one data fetch, for that     *)
(* month or the calendar month before it; no other month is probed; when    *)
(* the data fetch fails or answers with a non-200 envelope the call raises  *)
(* and sends nothing more.                                                  *)
C28_OneStepFallback ==
    /\ [](\A c \in Callers :
            call[c].op = "fetchEarnings"
            => LET sent == DispatchesOf(call[c].id)
                   probes == {i \in sent : dispatches[i].phase = "probe"}
                   fetches == {i \in sent : dispatches[i].phase = "data"}
               IN  /\ Cardinality(probes) <= 1 /\ Cardinality(fetches) <= 1
                   /\ \A i \in probes, j \in fetches : i < j
                   /\ fetches # {} => probes # {}
                   /\ \A i \in probes :
                         dispatches[i].url = Url(TRUE, "forecasts/total",
                                                 call[c].requested.year,
                                                 call[c].requested.month)
                   /\ \A j \in fetches :
                         /\ dispatches[j].url.endpoint = "forecasts"
                         /\ PeriodOf(dispatches[j].url)
                                \in {call[c].requested,
                                     PreviousCalendarMonth(call[c].requested)}
                         /\ dispatches[j].url.month \in 1 .. 12
                   /\ (call[c].pc = "done"
                          /\ (call[c].response.t # "body"
                              \/ (call[c].response.hasMeta
                                  /\ call[c].response.status # 200)))
                         => call[c].outcome.kind = "error")
    /\ [][\A c \in Callers :
            (call[c].op = "fetchEarnings" /\ call[c].pc = "done")
            => /\ dispatches' = dispatches
               /\ call'[c].pc \in {"done", "idle"}]_vars

C28_Witness ==
    \E c \in Callers :
        /\ call[c].op = "fetchEarnings" /\ call[c].pc = "done"
        /\ call[c].probe.kind = "ok" /\ call[c].probe.body.status = 409
        /\ call[c].requested.month = 1 /\ call[c].period.month = 12
        /\ call[c].response.t = "http"
        /\ call[c].outcome.kind = "error"
        /\ Cardinality(DispatchesOf(call[c].id)) = 2

(* C29: when the post of the k-th video id fails, addToMylist raises that   *)
(* error at once; the ids after the k-th are never sent, the k-th is sent   *)
(* once, and no DELETE is issued for the ids already added.                 *)
C29_AddNotAtomic ==
    /\ [](\A c \in Callers :
            (call[c].op = "addToMylist" /\ call[c].response.t # "none")
            => /\ call[c].pc = "done"
               /\ call[c].outcome = handleError(call[c].response)
               /\ Cardinality(DispatchesOf(call[c].id)) = call[c].index
               /\ \A i \in DispatchesOf(call[c].id) : dispatches[i].method = "POST")
    /\ [][\A c \in Callers :
            (call[c].op = "addToMylist" /\ call[c].pc = "done")
            => /\ dispatches' = dispatches
               /\ call'[c].pc \in {"done", "idle"}]_vars

C29_Witness ==
    \E c \in Callers :
        /\ call[c].op = "addToMylist" /\ call[c].pc = "done"
        /\ call[c].response.t = "http" /\ call[c].outcome.kind = "error"
        /\ Len(call[c].items) = 3 /\ call[c].index = 2
        /\ Cardinality(DispatchesOf(call[c].id)) = 2

(* C30: a transport-successful body without meta.status is returned by      *)
(* request() in default mode as a success, and the earnings probe answered  *)
(* with such a body resolves to the month that was current at the call.     *)
C30_NoMetaBody ==
    /\ \A c \in Callers :
          (call[c].op = "request" /\ call[c].pc = "done" /\ ~call[c].skipStatusCheck
              /\ call[c].response.t = "body" /\ ~call[c].response.hasMeta)
          => call[c].outcome = [kind |-> "ok", body |-> call[c].response]
    /\ \A c \in Callers :
          (call[c].op = "fetchEarnings" /\ call[c].probe.kind = "ok"
              /\ ~call[c].probe.body.hasMeta)
          => /\ call[c].period = call[c].requested
             /\ call[c].url = Url(TRUE, "forecasts", call[c].requested.year,
                                  call[c].requested.month)

C30_Witness ==
    \E c, d \in Callers :
        /\ call[c].op = "request" /\ call[c].pc = "done" /\ ~call[c].skipStatusCheck
        /\ call[c].response.t = "body" /\ ~call[c].response.hasMeta
        /\ call[c].outcome.kind = "ok"
        /\ call[d].op = "fetchEarnings" /\ call[d].pc = "inflight"
        /\ call[d].phase = "data"
        /\ call[d].probe.kind = "ok" /\ ~call[d].probe.body.hasMeta
        /\ call[d].period = call[d].requested

====
